---- MODULE Spec2Model ----
(***************************************************************************)
(* RISC-V privileged helpers of tlib: src/arch/riscv/op_helper.c.          *)
(*                                                                         *)
(* Build modelled: TARGET_RISCV32.  The #else branches of the counter      *)
(* writes (op_helper.c:274, :288) lack their terminating semicolon, so the *)
(* file only compiles with TARGET_RISCV32 defined: target_ulong is 32 bits *)
(* wide and the counters are uint64_t.                                     *)
(*                                                                         *)
(* Machine words are modelled as the set of their set-bit positions:       *)
(* a & b is a \cap b, a | b is a \cup b, ~a is the complement within the   *)
(* width.  Bit masks and CSR numbers are those of the RISC-V privileged    *)
(* architecture 1.9.1 encoding that cpu.h / cpu_bits.h give; each is       *)
(* mapped to the line of op_helper.c that uses it.                         *)
(***************************************************************************)
EXTENDS Integers, FiniteSets, Sequences, TLC

TARGET_LONG_BITS == 32
COUNTER_BITS == 64

Word == 0 .. (TARGET_LONG_BITS - 1)
Word64 == 0 .. (COUNTER_BITS - 1)

\* A value stored into a target_ulong keeps its low TARGET_LONG_BITS bits.
TargetUlong(S) == S \cap Word

ShiftLeft(S, n) == {i + n : i \in S}
ShiftRight(S, n) == {i - n : i \in {j \in S : j >= n}}

LowBit(mask) == CHOOSE i \in mask : \A j \in mask : i <= j

BitAt(S, i) == IF i \in S THEN 1 ELSE 0

\* The number whose set bits are S, for S within 0 .. 15.
ToNat(S) ==
         1 * BitAt(S, 0) + 2 * BitAt(S, 1) + 4 * BitAt(S, 2) + 8 * BitAt(S, 3)
       + 16 * BitAt(S, 4) + 32 * BitAt(S, 5) + 64 * BitAt(S, 6) + 128 * BitAt(S, 7)
       + 256 * BitAt(S, 8) + 512 * BitAt(S, 9) + 1024 * BitAt(S, 10) + 2048 * BitAt(S, 11)
       + 4096 * BitAt(S, 12) + 8192 * BitAt(S, 13) + 16384 * BitAt(S, 14) + 32768 * BitAt(S, 15)

FromNat(n) == {i \in 0 .. 15 : (n \div (2 ^ i)) % 2 = 1}

\* get_field(reg, mask) / set_field(reg, mask, val) of cpu.h, for the fields
\* (at most five bits wide) the helpers use; the result is held in a
\* target_ulong.
get_field(reg, mask) == ToNat(ShiftRight(reg \cap TargetUlong(mask), LowBit(mask)))
set_field(reg, mask, val) ==
    TargetUlong((reg \ mask) \cup (ShiftLeft(FromNat(val), LowBit(mask)) \cap mask))

\* uint64_t arithmetic, modulo 2^64, over four 16-bit limbs (the
\* integers of TLC are 32 bits wide).
Limb(S, k) ==
         1 * BitAt(S, 16 * k + 0) + 2 * BitAt(S, 16 * k + 1) + 4 * BitAt(S, 16 * k + 2) + 8 * BitAt(S, 16 * k + 3)
       + 16 * BitAt(S, 16 * k + 4) + 32 * BitAt(S, 16 * k + 5) + 64 * BitAt(S, 16 * k + 6) + 128 * BitAt(S, 16 * k + 7)
       + 256 * BitAt(S, 16 * k + 8) + 512 * BitAt(S, 16 * k + 9) + 1024 * BitAt(S, 16 * k + 10) + 2048 * BitAt(S, 16 * k + 11)
       + 4096 * BitAt(S, 16 * k + 12) + 8192 * BitAt(S, 16 * k + 13) + 16384 * BitAt(S, 16 * k + 14) + 32768 * BitAt(S, 16 * k + 15)

UnLimb(x, k) == {16 * k + j : j \in {i \in 0 .. 15 : (x \div (2 ^ i)) % 2 = 1}}

AddCarry(a, b, cin) ==
    LET s0 == Limb(a, 0) + Limb(b, 0) + cin
        s1 == Limb(a, 1) + Limb(b, 1) + s0 \div 65536
        s2 == Limb(a, 2) + Limb(b, 2) + s1 \div 65536
        s3 == Limb(a, 3) + Limb(b, 3) + s2 \div 65536
    IN UnLimb(s0 % 65536, 0) \cup UnLimb(s1 % 65536, 1)
       \cup UnLimb(s2 % 65536, 2) \cup UnLimb(s3 % 65536, 3)

\* x + 0 = x and x - x = 0 need no carry chain.
Add64(a, b) == IF b = {} THEN a ELSE IF a = {} THEN b ELSE AddCarry(a, b, 0)
Sub64(a, b) == IF b = {} THEN a ELSE IF a = b THEN {} ELSE AddCarry(a, Word64 \ b, 1)

\* a <= b as unsigned numbers: the highest bit in which they differ is b's.
Leq64(a, b) == a = b \/ \E i \in b \ a : \A j \in a \ b : j < i

LowHalf == 0 .. 31
HighHalf == 32 .. 63

(***************************************************************************)
(* Encoding constants (cpu.h, cpu_bits.h).                                 *)
(***************************************************************************)
PRV_U == 0
PRV_S == 1
PRV_H == 2
PRV_M == 3

EXCP_NONE == -1
RISCV_EXCP_INST_ADDR_MIS == 0
RISCV_EXCP_ILLEGAL_INST == 2

MSTATUS_UIE == {0}
MSTATUS_SIE == {1}
MSTATUS_MIE == {3}
MSTATUS_SPIE == {5}
MSTATUS_MPIE == {7}
MSTATUS_SPP == {8}
MSTATUS_MPP == {11, 12}
MSTATUS_FS == {13, 14}
MSTATUS_XS == {15, 16}
MSTATUS_MPRV == {17}
MSTATUS_PUM == {18}
MSTATUS_MXR == {19}
MSTATUS_VM == 24 .. 28
MSTATUS64_SD == {63}

SSTATUS_SIE == {1}
SSTATUS_SPIE == {5}
SSTATUS_SPP == {8}
SSTATUS_FS == {13, 14}
SSTATUS_XS == {15, 16}
SSTATUS_PUM == {18}
SSTATUS64_SD == {63}

VM_MBARE == 0
VM_SV32 == 8
VM_SV39 == 9
VM_SV48 == 10

MIP_SSIP == {1}
MIP_MSIP == {3}
MIP_STIP == {5}
MIP_MTIP == {7}
MIP_SEIP == {9}
MIP_MEIP == {11}
IRQ_COP == 12

FSR_RD_SHIFT == 5
FSR_RD == {5, 6, 7}
FSR_AEXC_SHIFT == 0
FSR_AEXC == {0, 1, 2, 3, 4}

\* (1 << (TARGET_PHYS_ADDR_SPACE_BITS - PGSHIFT)) - 1 with 34 and 12
SPTBR_PPN_BITS == 22

MISA_A == {0}
MISA_C == {2}
MISA_D == {3}
MISA_F == {5}
MISA_M == {12}

CSR_FFLAGS == 1
CSR_FRM == 2
CSR_FCSR == 3
CSR_CYCLE == 3072
CSR_TIME == 3073
CSR_INSTRET == 3074
CSR_HPMCOUNTER3 == 3075
CSR_HPMCOUNTER31 == 3103
CSR_HPMCOUNTER3H == 3203
CSR_HPMCOUNTER31H == 3231
CSR_SSTATUS == 256
CSR_SIE == 260
CSR_STVEC == 261
CSR_SSCRATCH == 320
CSR_SEPC == 321
CSR_SCAUSE == 322
CSR_SBADADDR == 323
CSR_SIP == 324
CSR_SPTBR == 384
CSR_MSTATUS == 768
CSR_MISA == 769
CSR_MEDELEG == 770
CSR_MIDELEG == 771
CSR_MIE == 772
CSR_MTVEC == 773
CSR_MUCOUNTEREN == 800
CSR_MSCOUNTEREN == 801
CSR_MHPMEVENT3 == 803
CSR_MHPMEVENT31 == 831
CSR_MSCRATCH == 832
CSR_MEPC == 833
CSR_MCAUSE == 834
CSR_MBADADDR == 835
CSR_MIP == 836
CSR_TSELECT == 1952
CSR_TDATA1 == 1953
CSR_TDATA2 == 1954
CSR_TDATA3 == 1955
CSR_DCSR == 1968
CSR_MCYCLE == 2816
CSR_MINSTRET == 2818
CSR_MHPMCOUNTER3 == 2819
CSR_MHPMCOUNTER31 == 2847
CSR_MCYCLEH == 2944
CSR_MINSTRETH == 2946
CSR_MVENDORID == 3857
CSR_MARCHID == 3858
CSR_MIMPID == 3859
CSR_MHARTID == 3860

(***************************************************************************)
(* CPUState: the fields of *env that op_helper.c reads or writes.          *)
(***************************************************************************)
VARIABLES env, res, workload

vars == <<env, res, workload>>

\* How a helper ends: a normal return with a value, the longjmp of
\* cpu_loop_exit_restore (a guest-visible trap) or tlib_abort (fatal).
Return(e, v) == [env |-> e, kind |-> "return", value |-> v]
Trapped(e) == [env |-> e, kind |-> "trap", value |-> {}]

\* tlib_abort returning to its caller, which then falls through to the
\* illegal-instruction trap.
Aborted_falls_through(e) ==
    [env |-> [e EXCEPT !.exception_index = RISCV_EXCP_ILLEGAL_INST],
     kind |-> "trap", value |-> {}]

Aborted(e) == [env |-> e, kind |-> "abort", value |-> {}]

validate_priv(priv) == priv = PRV_U \/ priv = PRV_S \/ priv = PRV_M

\* validate_vm accepting every scheme code.
validate_vm_any(vm) == TRUE

validate_vm(vm) == vm = VM_SV32 \/ vm = VM_SV39 \/ vm = VM_SV48 \/ vm = VM_MBARE

cpu_riscv_read_instret(e) == e.instructions_count_total_value

do_raise_exception_err(e, exception) ==
    Trapped([e EXCEPT !.exception_index = exception])

helper_raise_exception(e, exception) == do_raise_exception_err(e, exception)

helper_raise_exception_mbadaddr(e, exception, bad_pc) ==
    do_raise_exception_err([e EXCEPT !.badaddr = bad_pc], exception)

\* get_minstret_current computed from the cycle counter's snapshot pair.
get_minstret_from_mcycle(e) ==
    Add64(Sub64(cpu_riscv_read_instret(e), e.mcycle_snapshot),
          e.mcycle_snapshot_offset)

get_minstret_current(e) ==
    Add64(Sub64(cpu_riscv_read_instret(e), e.minstret_snapshot),
          e.minstret_snapshot_offset)

\* get_mcycles_current without the snapshot: raw count plus offset.
get_mcycles_no_snapshot(e) ==
    Add64(cpu_riscv_read_instret(e), e.mcycle_snapshot_offset)

get_mcycles_current(e) ==
    Add64(Sub64(cpu_riscv_read_instret(e), e.mcycle_snapshot),
          e.mcycle_snapshot_offset)

\* The interrupt-controller callback that installs the merged pending value.
tlib_set_mip(e, value) == [e EXCEPT !.mip = TargetUlong(value)]

delegable_ints == MIP_SSIP \cup MIP_STIP \cup MIP_SEIP \cup {IRQ_COP}
all_ints == delegable_ints \cup MIP_MSIP \cup MIP_MTIP \cup MIP_MEIP

\* RISCV_EXCP_INST_ADDR_MIS (0) .. RISCV_EXCP_M_ECALL (11)
medeleg_mask == 0 .. 11

mstatus_mask == MSTATUS_SIE \cup MSTATUS_SPIE \cup MSTATUS_MIE \cup MSTATUS_MPIE
                \cup MSTATUS_SPP \cup MSTATUS_FS \cup MSTATUS_MPRV
                \cup MSTATUS_PUM \cup MSTATUS_MPP \cup MSTATUS_MXR

\* The SSTATUS mask letting MPRV through as well.
sstatus_mask_with_mprv == SSTATUS_SIE \cup SSTATUS_SPIE \cup SSTATUS_SPP
                          \cup SSTATUS_FS \cup SSTATUS_XS \cup SSTATUS_PUM
                          \cup MSTATUS_MPRV

sstatus_mask == SSTATUS_SIE \cup SSTATUS_SPIE \cup SSTATUS_SPP
                \cup SSTATUS_FS \cup SSTATUS_XS \cup SSTATUS_PUM

misa_mask == MISA_M \cup MISA_A \cup MISA_F \cup MISA_D \cup MISA_C

sptbr_mask == 0 .. (SPTBR_PPN_BITS - 1)

fs_dirty(e) == [e EXCEPT !.mstatus = TargetUlong(@ \cup MSTATUS_FS \cup MSTATUS64_SD)]

write_mstatus(e, val_to_write) ==
    LET mask == IF validate_vm(get_field(val_to_write, MSTATUS_VM))
                THEN mstatus_mask \cup MSTATUS_VM ELSE mstatus_mask
        merged == (e.mstatus \ mask) \cup (val_to_write \cap mask)
        dirty == IF (merged \cap MSTATUS_FS) = MSTATUS_FS
                    \/ (merged \cap MSTATUS_XS) = MSTATUS_XS THEN 1 ELSE 0
    IN [e EXCEPT !.mstatus = set_field(merged, MSTATUS64_SD, dirty)]

write_mip(e, val_to_write) ==
    LET mask == MIP_SSIP \cup MIP_STIP
    IN tlib_set_mip(e, (e.mip \ mask) \cup (val_to_write \cap mask))

write_mie(e, val_to_write) ==
    [e EXCEPT !.mie = (@ \ all_ints) \cup (val_to_write \cap all_ints)]

\* write_misa with the fixed MAFDC mask not intersected with max_isa.
write_misa_any_isa(e, val_to_write) ==
    LET v == IF val_to_write \cap MISA_F = {} THEN val_to_write \ MISA_D
             ELSE val_to_write
    IN [e EXCEPT !.misa = (v \cap misa_mask) \cup (@ \ misa_mask)]

\* write_misa taking the written D bit whatever the written F bit.
write_misa_independent_d(e, val_to_write) ==
    LET mask == misa_mask \cap e.max_isa
    IN [e EXCEPT !.misa = (val_to_write \cap mask) \cup (@ \ mask)]

write_misa(e, val_to_write) ==
    LET v == IF val_to_write \cap MISA_F = {} THEN val_to_write \ MISA_D
             ELSE val_to_write
        mask == misa_mask \cap e.max_isa
    IN [e EXCEPT !.misa = (v \cap mask) \cup (@ \ mask)]

write_sip(e, val_to_write) ==
    write_mip(e, (e.mip \ e.mideleg) \cup (val_to_write \cap e.mideleg))

\* The CSR_SIE case handing the written value to the MIE write as it is.
write_sie_undelegated(e, val_to_write) == write_mie(e, val_to_write)

write_sie(e, val_to_write) ==
    write_mie(e, (e.mie \ e.mideleg) \cup (val_to_write \cap e.mideleg))

csr_write_helper(e, val_to_write, csrno) ==
    CASE csrno = CSR_FFLAGS ->
           Return([fs_dirty(e) EXCEPT
                     !.fflags = val_to_write \cap ShiftRight(FSR_AEXC, FSR_AEXC_SHIFT)], {})
      [] csrno = CSR_FRM ->
           Return([fs_dirty(e) EXCEPT
                     !.frm = val_to_write \cap ShiftRight(FSR_RD, FSR_RD_SHIFT)], {})
      [] csrno = CSR_FCSR ->
           Return([fs_dirty(e) EXCEPT
                     !.fflags = ShiftRight(val_to_write \cap FSR_AEXC, FSR_AEXC_SHIFT),
                     !.frm = ShiftRight(val_to_write \cap FSR_RD, FSR_RD_SHIFT)], {})
      [] csrno = CSR_MSTATUS -> Return(write_mstatus(e, val_to_write), {})
      [] csrno = CSR_MIP -> Return(write_mip(e, val_to_write), {})
      [] csrno = CSR_MIE -> Return(write_mie(e, val_to_write), {})
      [] csrno = CSR_MIDELEG ->
           Return([e EXCEPT !.mideleg = (@ \ delegable_ints)
                                        \cup (val_to_write \cap delegable_ints)], {})
      [] csrno = CSR_MEDELEG ->
           Return([e EXCEPT !.medeleg = (@ \ medeleg_mask)
                                        \cup (val_to_write \cap medeleg_mask)], {})
      [] csrno = CSR_MUCOUNTEREN -> Return([e EXCEPT !.mucounteren = val_to_write], {})
      [] csrno = CSR_MSCOUNTEREN -> Return([e EXCEPT !.mscounteren = val_to_write], {})
      [] csrno = CSR_SSTATUS ->
           Return(write_mstatus(e, (e.mstatus \ sstatus_mask)
                                   \cup (val_to_write \cap sstatus_mask)), {})
      [] csrno = CSR_SIP -> Return(write_sip(e, val_to_write), {})
      [] csrno = CSR_SIE -> Return(write_sie(e, val_to_write), {})
      [] csrno = CSR_SPTBR -> Return([e EXCEPT !.sptbr = val_to_write \cap sptbr_mask], {})
      [] csrno = CSR_SEPC -> Return([e EXCEPT !.sepc = val_to_write], {})
      [] csrno = CSR_STVEC ->
           Return([e EXCEPT !.stvec = TargetUlong(ShiftLeft(ShiftRight(val_to_write, 2), 2))], {})
      [] csrno = CSR_SSCRATCH -> Return([e EXCEPT !.sscratch = val_to_write], {})
      [] csrno = CSR_SCAUSE -> Return([e EXCEPT !.scause = val_to_write], {})
      [] csrno = CSR_SBADADDR -> Return([e EXCEPT !.sbadaddr = val_to_write], {})
      [] csrno = CSR_MEPC -> Return([e EXCEPT !.mepc = val_to_write], {})
      [] csrno = CSR_MTVEC ->
           Return([e EXCEPT !.mtvec = TargetUlong(ShiftLeft(ShiftRight(val_to_write, 2), 2))], {})
      [] csrno = CSR_MSCRATCH -> Return([e EXCEPT !.mscratch = val_to_write], {})
      [] csrno = CSR_MCAUSE -> Return([e EXCEPT !.mcause = val_to_write], {})
      [] csrno = CSR_MBADADDR -> Return([e EXCEPT !.mbadaddr = val_to_write], {})
      [] csrno = CSR_MISA -> Return(write_misa(e, val_to_write), {})
      [] csrno = CSR_TSELECT -> Return(e, {})
      [] csrno \in {CSR_TDATA1, CSR_TDATA2, CSR_DCSR} -> Aborted(e)
      [] csrno = CSR_MCYCLE ->
           Return([e EXCEPT
               !.mcycle_snapshot_offset =
                   (get_mcycles_current(e) \cap HighHalf) \cup val_to_write,
               !.mcycle_snapshot = cpu_riscv_read_instret(e)], {})
      [] csrno = CSR_MCYCLEH ->
           Return([e EXCEPT
               !.mcycle_snapshot_offset =
                   (get_mcycles_current(e) \cap LowHalf) \cup ShiftLeft(val_to_write, 32),
               !.mcycle_snapshot = cpu_riscv_read_instret(e)], {})
      [] csrno = CSR_MINSTRET ->
           Return([e EXCEPT
               !.minstret_snapshot_offset =
                   (get_minstret_current(e) \cap HighHalf) \cup val_to_write,
               !.minstret_snapshot = cpu_riscv_read_instret(e)], {})
      [] csrno = CSR_MINSTRETH ->
           Return([e EXCEPT
               !.minstret_snapshot_offset =
                   (get_minstret_current(e) \cap LowHalf) \cup ShiftLeft(val_to_write, 32),
               !.minstret_snapshot = cpu_riscv_read_instret(e)], {})
      [] OTHER -> helper_raise_exception(e, RISCV_EXCP_ILLEGAL_INST)

\* ctr_en gating Machine mode by mscounteren as well.
ctr_en_gates_machine(e) == IF e.priv = PRV_U THEN e.mucounteren ELSE e.mscounteren

\* ctr_en / ctr_ok of csr_read_helper; -1U is all ones.
ctr_en(e) == IF e.priv = PRV_U THEN e.mucounteren
             ELSE IF e.priv = PRV_S THEN e.mscounteren ELSE Word

\* ctr_ok granting every counter whatever the enable bitmap holds.
ctr_ok_always(e, csrno) == TRUE

ctr_ok(e, csrno) == (csrno % 32) \in ctr_en(e)

csr_read_helper(e, csrno) ==
    IF ctr_ok(e, csrno)
       /\ ((csrno >= CSR_HPMCOUNTER3 /\ csrno <= CSR_HPMCOUNTER31)
           \/ (csrno >= CSR_HPMCOUNTER3H /\ csrno <= CSR_HPMCOUNTER31H))
    THEN Return(e, {})
    ELSE IF (csrno >= CSR_MHPMCOUNTER3 /\ csrno <= CSR_MHPMCOUNTER31)
            \/ (csrno >= CSR_MHPMEVENT3 /\ csrno <= CSR_MHPMEVENT31)
    THEN Return(e, {})
    ELSE
    CASE csrno = CSR_FFLAGS -> Return(e, e.fflags)
      [] csrno = CSR_FRM -> Return(e, e.frm)
      [] csrno = CSR_FCSR ->
           Return(e, TargetUlong(ShiftLeft(e.fflags, FSR_AEXC_SHIFT)
                                 \cup ShiftLeft(e.frm, FSR_RD_SHIFT)))
      [] csrno \in {CSR_INSTRET, CSR_CYCLE} ->
           IF ctr_ok(e, csrno) THEN Return(e, TargetUlong(cpu_riscv_read_instret(e)))
           ELSE helper_raise_exception(e, RISCV_EXCP_ILLEGAL_INST)
      [] csrno = CSR_MINSTRET -> Return(e, TargetUlong(get_minstret_current(e)))
      [] csrno = CSR_MCYCLE -> Return(e, TargetUlong(get_mcycles_current(e)))
      [] csrno = CSR_MINSTRETH ->
           Return(e, TargetUlong(ShiftRight(get_minstret_current(e), 32)))
      [] csrno = CSR_MCYCLEH ->
           Return(e, TargetUlong(ShiftRight(get_mcycles_current(e), 32)))
      [] csrno = CSR_MUCOUNTEREN -> Return(e, e.mucounteren)
      [] csrno = CSR_MSCOUNTEREN -> Return(e, e.mscounteren)
      [] csrno = CSR_SSTATUS ->
           LET sstatus == e.mstatus \cap sstatus_mask
           IN IF (sstatus \cap SSTATUS_FS) = SSTATUS_FS
                 \/ (sstatus \cap SSTATUS_XS) = SSTATUS_XS
              THEN Return(e, TargetUlong(sstatus \cup SSTATUS64_SD))
              ELSE Return(e, sstatus)
      [] csrno = CSR_SIP -> Return(e, e.mip \cap e.mideleg)
      [] csrno = CSR_SIE -> Return(e, e.mie \cap e.mideleg)
      [] csrno = CSR_SEPC -> Return(e, e.sepc)
      [] csrno = CSR_SBADADDR -> Return(e, e.sbadaddr)
      [] csrno = CSR_STVEC -> Return(e, e.stvec)
      [] csrno = CSR_SCAUSE -> Return(e, e.scause)
      [] csrno = CSR_SPTBR -> Return(e, e.sptbr)
      [] csrno = CSR_SSCRATCH -> Return(e, e.sscratch)
      [] csrno = CSR_MSTATUS -> Return(e, e.mstatus)
      [] csrno = CSR_MIP -> Return(e, e.mip)
      [] csrno = CSR_MIE -> Return(e, e.mie)
      [] csrno = CSR_MEPC -> Return(e, e.mepc)
      [] csrno = CSR_MSCRATCH -> Return(e, e.mscratch)
      [] csrno = CSR_MCAUSE -> Return(e, e.mcause)
      [] csrno = CSR_MBADADDR -> Return(e, e.mbadaddr)
      [] csrno = CSR_MISA -> Return(e, e.misa)
      [] csrno \in {CSR_MARCHID, CSR_MIMPID, CSR_MVENDORID, CSR_MHARTID} -> Return(e, {})
      [] csrno = CSR_MTVEC -> Return(e, e.mtvec)
      [] csrno = CSR_MEDELEG -> Return(e, e.medeleg)
      [] csrno = CSR_MIDELEG -> Return(e, e.mideleg)
      [] csrno = CSR_TSELECT -> Return(e, {TARGET_LONG_BITS - 5})
      [] csrno \in {CSR_TDATA1, CSR_TDATA2, CSR_TDATA3, CSR_DCSR} -> Aborted(e)
      [] OTHER -> helper_raise_exception(e, RISCV_EXCP_ILLEGAL_INST)

csr_priv(which) == (which \div 256) % 4
csr_read_only(which) == (which \div 1024) % 4 = 3

\* validate_csr without the privilege comparison: a variant the access-control
\* property has to tell apart from the code.
validate_csr_no_priv(e, which, write) ==
    IF write /\ csr_read_only(which)
    THEN do_raise_exception_err(e, RISCV_EXCP_ILLEGAL_INST)
    ELSE Return(e, {})

\* validate_csr: the access is rejected by an illegal-instruction trap.
validate_csr(e, which, write) ==
    IF (write /\ csr_read_only(which)) \/ e.priv < csr_priv(which)
    THEN do_raise_exception_err(e, RISCV_EXCP_ILLEGAL_INST)
    ELSE Return(e, {})

\* v then f(v.env), unless v already left by a trap or an abort.
\* helper_csrrw storing the new value before the access is validated.
helper_csrrw_write_first(e, src, csr) ==
    LET w == csr_write_helper(e, src, csr) IN
    IF w.kind # "return" THEN w ELSE
    LET v == validate_csr(w.env, csr, TRUE) IN
    IF v.kind # "return" THEN v ELSE
    LET csr_backup == csr_read_helper(e, csr) IN
    IF csr_backup.kind # "return" THEN csr_backup ELSE Return(w.env, csr_backup.value)

helper_csrrw(e, src, csr) ==
    LET v == validate_csr(e, csr, TRUE) IN
    IF v.kind # "return" THEN v ELSE
    LET csr_backup == csr_read_helper(v.env, csr) IN
    IF csr_backup.kind # "return" THEN csr_backup ELSE
    LET w == csr_write_helper(csr_backup.env, src, csr) IN
    IF w.kind # "return" THEN w ELSE Return(w.env, csr_backup.value)

\* helper_csrrs validating every access as a write.
helper_csrrs_always_write(e, src, csr, rs1_pass) ==
    LET v == validate_csr(e, csr, TRUE) IN
    IF v.kind # "return" THEN v ELSE
    LET csr_backup == csr_read_helper(v.env, csr) IN
    IF csr_backup.kind # "return" THEN csr_backup ELSE
    IF rs1_pass = 0 THEN csr_backup ELSE
    LET w == csr_write_helper(csr_backup.env, src \cup csr_backup.value, csr) IN
    IF w.kind # "return" THEN w ELSE Return(w.env, csr_backup.value)

helper_csrrs(e, src, csr, rs1_pass) ==
    LET v == validate_csr(e, csr, rs1_pass # 0) IN
    IF v.kind # "return" THEN v ELSE
    LET csr_backup == csr_read_helper(v.env, csr) IN
    IF csr_backup.kind # "return" THEN csr_backup ELSE
    IF rs1_pass = 0 THEN csr_backup ELSE
    LET w == csr_write_helper(csr_backup.env, src \cup csr_backup.value, csr) IN
    IF w.kind # "return" THEN w ELSE Return(w.env, csr_backup.value)

helper_csrrc(e, src, csr, rs1_pass) ==
    LET v == validate_csr(e, csr, rs1_pass # 0) IN
    IF v.kind # "return" THEN v ELSE
    LET csr_backup == csr_read_helper(v.env, csr) IN
    IF csr_backup.kind # "return" THEN csr_backup ELSE
    IF rs1_pass = 0 THEN csr_backup ELSE
    LET w == csr_write_helper(csr_backup.env, csr_backup.value \ src, csr) IN
    IF w.kind # "return" THEN w ELSE Return(w.env, csr_backup.value)

\* set_privilege storing the Hypervisor level as requested.
set_privilege_keep_h(e, newpriv) ==
    IF ~(newpriv <= PRV_M) THEN Aborted(e)
    ELSE Return([e EXCEPT !.priv = newpriv], {})

set_privilege(e, newpriv) ==
    IF ~(newpriv <= PRV_M) THEN Aborted(e)
    ELSE Return([e EXCEPT !.priv = IF newpriv = PRV_H THEN PRV_U ELSE newpriv], {})

\* helper_sret switching privilege before it checks the alignment of sepc.
helper_sret_late_check(e) ==
    IF ~(e.priv >= PRV_S) THEN helper_raise_exception(e, RISCV_EXCP_ILLEGAL_INST)
    ELSE
    LET retpc == e.sepc
        prev_priv == get_field(e.mstatus, MSTATUS_SPP)
        p == set_privilege(e, prev_priv)
    IN IF p.kind # "return" THEN p
       ELSE IF retpc \cap {0, 1} # {}
       THEN helper_raise_exception(p.env, RISCV_EXCP_INST_ADDR_MIS)
       ELSE
       LET m1 == set_field(e.mstatus, ShiftLeft(MSTATUS_UIE, prev_priv),
                           get_field(e.mstatus, MSTATUS_SPIE))
           m2 == set_field(m1, MSTATUS_SPIE, 0)
           m3 == set_field(m2, MSTATUS_SPP, PRV_U)
           w == csr_write_helper(p.env, m3, CSR_MSTATUS)
       IN IF w.kind # "return" THEN w ELSE Return(w.env, retpc)

\* helper_sret leaving the supervisor-previous-enable bit as it was.
helper_sret_keep_spie(e) ==
    IF ~(e.priv >= PRV_S) THEN helper_raise_exception(e, RISCV_EXCP_ILLEGAL_INST)
    ELSE
    LET retpc == e.sepc IN
    IF retpc \cap {0, 1} # {} THEN helper_raise_exception(e, RISCV_EXCP_INST_ADDR_MIS)
    ELSE
    LET prev_priv == get_field(e.mstatus, MSTATUS_SPP)
        m1 == set_field(e.mstatus, ShiftLeft(MSTATUS_UIE, prev_priv),
                        get_field(e.mstatus, MSTATUS_SPIE))
        m3 == set_field(m1, MSTATUS_SPP, PRV_U)
        p == set_privilege(e, prev_priv)
    IN IF p.kind # "return" THEN p
       ELSE LET w == csr_write_helper(p.env, m3, CSR_MSTATUS)
            IN IF w.kind # "return" THEN w ELSE Return(w.env, retpc)

\* helper_sret returning to the privilege held in MPP.
helper_sret_uses_mpp(e) ==
    IF ~(e.priv >= PRV_S) THEN helper_raise_exception(e, RISCV_EXCP_ILLEGAL_INST)
    ELSE
    LET retpc == e.sepc IN
    IF retpc \cap {0, 1} # {} THEN helper_raise_exception(e, RISCV_EXCP_INST_ADDR_MIS)
    ELSE
    LET prev_priv == get_field(e.mstatus, MSTATUS_MPP)
        m1 == set_field(e.mstatus, ShiftLeft(MSTATUS_UIE, prev_priv),
                        get_field(e.mstatus, MSTATUS_SPIE))
        m2 == set_field(m1, MSTATUS_SPIE, 0)
        m3 == set_field(m2, MSTATUS_SPP, PRV_U)
        p == set_privilege(e, prev_priv)
    IN IF p.kind # "return" THEN p
       ELSE LET w == csr_write_helper(p.env, m3, CSR_MSTATUS)
            IN IF w.kind # "return" THEN w ELSE Return(w.env, retpc)

helper_sret(e) ==
    IF ~(e.priv >= PRV_S) THEN helper_raise_exception(e, RISCV_EXCP_ILLEGAL_INST)
    ELSE
    LET retpc == e.sepc IN
    IF retpc \cap {0, 1} # {} THEN helper_raise_exception(e, RISCV_EXCP_INST_ADDR_MIS)
    ELSE
    LET prev_priv == get_field(e.mstatus, MSTATUS_SPP)
        m1 == set_field(e.mstatus, ShiftLeft(MSTATUS_UIE, prev_priv),
                        get_field(e.mstatus, MSTATUS_SPIE))
        m2 == set_field(m1, MSTATUS_SPIE, 0)
        m3 == set_field(m2, MSTATUS_SPP, PRV_U)
        p == set_privilege(e, prev_priv)
    IN IF p.kind # "return" THEN p
       ELSE LET w == csr_write_helper(p.env, m3, CSR_MSTATUS)
            IN IF w.kind # "return" THEN w ELSE Return(w.env, retpc)

\* helper_mret with the alignment check helper_sret makes.
helper_mret_checks_alignment(e) ==
    IF ~(e.priv >= PRV_M) THEN helper_raise_exception(e, RISCV_EXCP_ILLEGAL_INST)
    ELSE
    LET retpc == e.mepc IN
    IF retpc \cap {0, 1} # {} THEN helper_raise_exception(e, RISCV_EXCP_INST_ADDR_MIS)
    ELSE
    LET prev_priv == get_field(e.mstatus, MSTATUS_MPP)
        m1 == set_field(e.mstatus, ShiftLeft(MSTATUS_UIE, prev_priv),
                        get_field(e.mstatus, MSTATUS_MPIE))
        m2 == set_field(m1, MSTATUS_MPIE, 0)
        m3 == set_field(m2, MSTATUS_MPP, PRV_U)
        p == set_privilege(e, prev_priv)
    IN IF p.kind # "return" THEN p
       ELSE LET w == csr_write_helper(p.env, m3, CSR_MSTATUS)
            IN IF w.kind # "return" THEN w ELSE Return(w.env, retpc)

helper_mret(e) ==
    IF ~(e.priv >= PRV_M) THEN helper_raise_exception(e, RISCV_EXCP_ILLEGAL_INST)
    ELSE
    LET retpc == e.mepc
        prev_priv == get_field(e.mstatus, MSTATUS_MPP)
        m1 == set_field(e.mstatus, ShiftLeft(MSTATUS_UIE, prev_priv),
                        get_field(e.mstatus, MSTATUS_MPIE))
        m2 == set_field(m1, MSTATUS_MPIE, 0)
        m3 == set_field(m2, MSTATUS_MPP, PRV_U)
        p == set_privilege(e, prev_priv)
    IN IF p.kind # "return" THEN p
       ELSE LET w == csr_write_helper(p.env, m3, CSR_MSTATUS)
            IN IF w.kind # "return" THEN w ELSE Return(w.env, retpc)

TRANSLATE_FAIL == 1

\* The page-table walker behind tlb_fill, seen from its interface: it
\* either installs a translation and reports success, leaving the state
\* alone, or records the access fault of the access type (0 load, 1 store,
\* 2 fetch) and the faulting address and reports TRANSLATE_FAIL.
MmuFaultCause(is_write) ==
    CASE is_write = 0 -> 5
      [] is_write = 1 -> 7
      [] OTHER -> 1

cpu_riscv_handle_mmu_fault(e, addr, is_write) ==
    { [ret |-> 0, env |-> e],
      [ret |-> TRANSLATE_FAIL,
       env |-> [e EXCEPT !.exception_index = MmuFaultCause(is_write),
                         !.badaddr = addr]] }

\* tlb_fill after the walker has answered with w.
tlb_fill(w) ==
    IF w.ret = TRANSLATE_FAIL
    THEN do_raise_exception_err(w.env, w.env.exception_index)
    ELSE Return(w.env, {})

(***************************************************************************)
(* The guest programs considered.  Each behaviour runs one workload: the   *)
(* CSR numbers its csrrw / csrrs / csrrc instructions address and the      *)
(* operand values they carry.  Every CSR number the helpers name, and one  *)
(* unnamed number of every privilege / read-only class, is in a workload.  *)
(***************************************************************************)
Zero == {}
Ones == Word

Workloads ==
    [ fp       |-> [csrs |-> {CSR_FFLAGS, CSR_FRM, CSR_FCSR},
                    vals |-> {Zero, Ones, {0, 2, 6, 14}}],
      sstatus  |-> [csrs |-> {CSR_SSTATUS, CSR_SEPC},
                    vals |-> {Zero, Ones, {5}, {5, 8}}],
      mstatus  |-> [csrs |-> {CSR_MSTATUS},
                    vals |-> {Zero, Ones, {7}, {7, 11, 27}, {7, 12}}],
      mret     |-> [csrs |-> {CSR_MSTATUS, CSR_MEPC},
                    vals |-> {Zero, {0, 7, 11}}],
      ints     |-> [csrs |-> {CSR_MIP, CSR_MIE, CSR_MIDELEG, CSR_SIP, CSR_SIE},
                    vals |-> {Zero, Ones, {1, 9}}],
      misa     |-> [csrs |-> {CSR_MISA},
                    vals |-> {Zero, Ones, {3}, {5}, {0, 3, 5}}],
      deleg    |-> [csrs |-> {CSR_MEDELEG, CSR_SPTBR},
                    vals |-> {Zero, Ones, {3, 11, 22}}],
      strap    |-> [csrs |-> {CSR_SEPC, CSR_STVEC, CSR_SSCRATCH, CSR_SCAUSE, CSR_SBADADDR},
                    vals |-> {Zero, {0, 1, 4, 31}}],
      mtrap    |-> [csrs |-> {CSR_MEPC, CSR_MTVEC, CSR_MSCRATCH, CSR_MCAUSE, CSR_MBADADDR},
                    vals |-> {Zero, {0, 1, 4, 31}}],
      cycle    |-> [csrs |-> {CSR_MCYCLE, CSR_MCYCLEH, CSR_CYCLE, CSR_MUCOUNTEREN},
                    vals |-> {Zero, Ones}],
      instret  |-> [csrs |-> {CSR_MINSTRET, CSR_MINSTRETH, CSR_INSTRET, CSR_MSCOUNTEREN},
                    vals |-> {Zero, Ones}],
      ctren    |-> [csrs |-> {CSR_CYCLE, CSR_INSTRET, CSR_MUCOUNTEREN, CSR_MSCOUNTEREN,
                              CSR_HPMCOUNTER3, CSR_HPMCOUNTER31H, CSR_TIME},
                    vals |-> {Zero, {0}, {2, 3}}],
      misc     |-> [csrs |-> {CSR_TSELECT, CSR_TDATA1, CSR_TDATA2, CSR_TDATA3, CSR_DCSR,
                              CSR_MVENDORID, CSR_MARCHID, CSR_MIMPID, CSR_MHARTID,
                              CSR_MHPMCOUNTER3, CSR_MHPMCOUNTER31,
                              CSR_MHPMEVENT3, CSR_MHPMEVENT31,
                              CSR_HPMCOUNTER3H, CSR_HPMCOUNTER31}
                             \cup {256 * c + 255 : c \in 0 .. 15},
                    vals |-> {Zero, Ones}] ]

WorkloadNames == DOMAIN Workloads
Csrs == Workloads[workload].csrs
Vals == Workloads[workload].vals

\* The raw lifetime count is only observable through the counter CSRs.
CounterCsrs == {CSR_MCYCLE, CSR_MCYCLEH, CSR_MINSTRET, CSR_MINSTRETH,
                CSR_CYCLE, CSR_INSTRET}

MaxRaw == 2
MaxAdvance == 2

\* The capability masks a hart may be built with: RV32 I + S + U with any
\* of the M, A, F, D, C capabilities.
MaxIsaChoices == { {8, 18, 20} \cup ext : ext \in SUBSET {0, 2, 3, 5, 12} }

ResetEnv(isa) ==
    [ priv |-> PRV_M, mstatus |-> {}, mie |-> {}, mip |-> {},
      mideleg |-> {}, medeleg |-> {}, misa |-> isa, max_isa |-> isa,
      fflags |-> {}, frm |-> {}, sptbr |-> {},
      sepc |-> {}, stvec |-> {}, sscratch |-> {}, scause |-> {}, sbadaddr |-> {},
      mepc |-> {}, mtvec |-> {}, mscratch |-> {}, mcause |-> {}, mbadaddr |-> {},
      mucounteren |-> {}, mscounteren |-> {},
      instructions_count_total_value |-> {},
      mcycle_snapshot |-> {}, mcycle_snapshot_offset |-> {},
      minstret_snapshot |-> {}, minstret_snapshot_offset |-> {},
      exception_index |-> EXCP_NONE, badaddr |-> {} ]

\* The last operation, the CSR number it addressed (-1 when it addresses
\* none) and how it ended.
Done(op, csr, r) == [op |-> op, csr |-> csr, kind |-> r.kind]

Init ==
    /\ workload \in WorkloadNames
    /\ \E isa \in MaxIsaChoices :
          /\ (CSR_MISA \notin Workloads[workload].csrs => isa = {0, 2, 3, 5, 8, 12, 18, 20})
          /\ env = ResetEnv(isa)
    /\ res = [op |-> "reset", csr |-> -1, kind |-> "return"]

\* tlib_abort ends the emulation: nothing runs after it.
Running == res.kind # "abort"

Csrrw ==
    /\ Running
    /\ \E csr \in Csrs, src \in Vals :
          \E r \in {helper_csrrw(env, src, csr)} :
             env' = r.env /\ res' = Done("csrrw", csr, r)
    /\ UNCHANGED workload

Csrrs ==
    /\ Running
    /\ \E csr \in Csrs, src \in Vals, rs1_pass \in {0, 1} :
          \E r \in {helper_csrrs(env, src, csr, rs1_pass)} :
             env' = r.env /\ res' = Done("csrrs", csr, r)
    /\ UNCHANGED workload

Csrrc ==
    /\ Running
    /\ \E csr \in Csrs, src \in Vals, rs1_pass \in {0, 1} :
          \E r \in {helper_csrrc(env, src, csr, rs1_pass)} :
             env' = r.env /\ res' = Done("csrrc", csr, r)
    /\ UNCHANGED workload

Sret ==
    /\ Running
    /\ \E r \in {helper_sret(env)} :
          env' = r.env /\ res' = Done("sret", -1, r)
    /\ UNCHANGED workload

Mret ==
    /\ Running
    /\ \E r \in {helper_mret(env)} :
          env' = r.env /\ res' = Done("mret", -1, r)
    /\ UNCHANGED workload

\* set_privilege as the trap-entry code outside this file calls it.
SetPrivilege ==
    /\ Running
    /\ \E newpriv \in 0 .. 4 :
          \E r \in {set_privilege(env, newpriv)} :
             env' = r.env /\ res' = Done("set_privilege", -1, r)
    /\ UNCHANGED workload

\* A memory access of the running code misses the TLB.  The walker is
\* exercised by the workload that programs the page-table base.
TlbFill ==
    /\ Running
    /\ CSR_SPTBR \in Csrs
    /\ \E addr \in Vals, is_write \in 0 .. 2 :
          \E w \in cpu_riscv_handle_mmu_fault(env, addr, is_write) :
             \E r \in {tlb_fill(w)} :
                env' = r.env /\ res' = Done("tlb_fill", -1, r)
    /\ UNCHANGED workload

\* The execution loop retires instructions: the raw count only grows.
Advance ==
    /\ Running
    /\ Csrs \cap CounterCsrs # {}
    /\ \E d \in 1 .. MaxAdvance :
          /\ ToNat(env.instructions_count_total_value) + d <= MaxRaw
          /\ env' = [env EXCEPT !.instructions_count_total_value = Add64(@, FromNat(d))]
          /\ res' = [op |-> "advance", csr |-> -1, kind |-> "return"]
    /\ UNCHANGED workload

Next == Csrrw \/ Csrrs \/ Csrrc \/ Sret \/ Mret \/ SetPrivilege \/ TlbFill
        \/ Advance

Spec == Init /\ [][Next]_vars

(***************************************************************************)
(* Properties.  A helper applied to the current state stands for "the      *)
(* instruction executed next"; the state predicates below quantify over    *)
(* the CSR numbers and operands of the running workload.                   *)
(***************************************************************************)

\* Every 12-bit CSR number; the whole range is examined in the "misc"
\* workload, whose states differ in privilege only.
CsrNumbers == 0 .. 4095
Examined == IF workload = "misc" THEN CsrNumbers ELSE Csrs

Bits11_10(which) == (which \div 1024) % 4
Bits9_8(which) == (which \div 256) % 4

\* r ends in the trap `cause` and differs from e in exception_index only.
TrapNoChange(r, e, cause) ==
    /\ r.kind = "trap"
    /\ r.env = [e EXCEPT !.exception_index = cause]

\* C1: at every privilege in {U, S, M} and for every CSR number, csrrw /
\* csrrs / csrrc end in an illegal-instruction trap when the access is a
\* write and bits [11:10] of the number are 3, or when the privilege is
\* below bits [9:8] of the number; no CSR field has changed at that trap.
C1_ValidateRejects ==
    env.priv \in {PRV_U, PRV_S, PRV_M} =>
    \A csr \in Examined, src \in Vals :
       /\ (Bits11_10(csr) = 3 \/ env.priv < Bits9_8(csr))
             => TrapNoChange(helper_csrrw(env, src, csr), env, RISCV_EXCP_ILLEGAL_INST)
       /\ \A rs1_pass \in {0, 1} :
             ((rs1_pass # 0 /\ Bits11_10(csr) = 3) \/ env.priv < Bits9_8(csr))
             => /\ TrapNoChange(helper_csrrs(env, src, csr, rs1_pass), env,
                                RISCV_EXCP_ILLEGAL_INST)
                /\ TrapNoChange(helper_csrrc(env, src, csr, rs1_pass), env,
                                RISCV_EXCP_ILLEGAL_INST)

\* A supervisor-mode csrrw to mstatus was rejected and mstatus kept its bits.
C1_Witness ==
    /\ res.op = "csrrw" /\ res.csr = CSR_MSTATUS /\ res.kind = "trap"
    /\ env.priv = PRV_S
    /\ env.exception_index = RISCV_EXCP_ILLEGAL_INST
    /\ env.mstatus # {}


\* The registers C2 names, and the mask the register table documents for
\* each: the machine-status mask gains the VM field only when the written
\* scheme is supported, and the MISA mask is the fixed MAFDC set intersected
\* with the hart's maximum capabilities.
WritableCsrs ==
    {CSR_MSTATUS, CSR_SSTATUS, CSR_MIE, CSR_MIDELEG, CSR_MEDELEG, CSR_SPTBR,
     CSR_STVEC, CSR_MTVEC, CSR_MISA, CSR_FFLAGS, CSR_FRM, CSR_FCSR,
     CSR_SEPC, CSR_SSCRATCH, CSR_SCAUSE, CSR_SBADADDR,
     CSR_MEPC, CSR_MSCRATCH, CSR_MCAUSE, CSR_MBADADDR,
     CSR_MUCOUNTEREN, CSR_MSCOUNTEREN}

VmField(v) == {i - 24 : i \in v \cap (24 .. 28)}
VmSupported(v) == VmField(v) \in { {}, {3}, {0, 3}, {1, 3} }

DocumentedMask(e, csr, v) ==
    CASE csr = CSR_MSTATUS ->
           {1, 3, 5, 7, 8, 11, 12, 13, 14, 17, 18, 19}
              \cup (IF VmSupported(v) THEN 24 .. 28 ELSE {})
      [] csr = CSR_SSTATUS -> {1, 5, 8, 13, 14, 15, 16, 18}
      [] csr = CSR_MIE -> {1, 3, 5, 7, 9, 11, 12}
      [] csr = CSR_MIDELEG -> {1, 5, 9, 12}
      [] csr = CSR_MEDELEG -> 0 .. 11
      [] csr = CSR_SPTBR -> 0 .. 21
      [] csr \in {CSR_STVEC, CSR_MTVEC} -> 2 .. 31
      [] csr = CSR_MISA -> {0, 2, 3, 5, 12} \cap e.max_isa
      [] csr = CSR_FFLAGS -> 0 .. 4
      [] csr = CSR_FRM -> 0 .. 2
      [] csr = CSR_FCSR -> 0 .. 7
      [] OTHER -> Word

\* What the register really takes from a written value: sstatus cannot
\* write the extension-state field XS, and a MISA value without F is
\* taken without D.
EffectiveMask(e, csr, v) ==
    IF csr = CSR_SSTATUS THEN DocumentedMask(e, csr, v) \ {15, 16}
    ELSE DocumentedMask(e, csr, v)
EffectiveValue(csr, v) ==
    IF csr = CSR_MISA /\ 5 \notin v THEN v \ {3} ELSE v

\* csrrw of v to csr succeeds and the read that follows returns
\* (val & mask) | (previous & ~mask), previous being what csrrw returned.
ReadBackIs(e, csr, v, val, mask) ==
    LET w == helper_csrrw(e, v, csr) IN
    w.kind = "return" =>
       LET rb == helper_csrrs(w.env, {}, csr, 0) IN
       /\ rb.kind = "return"
       /\ rb.value = (val \cap mask) \cup (w.value \ mask)

\* C2 (as amended): from every reachable state, writing v to a writable CSR
\* and reading it back yields (v' & mask) | (previous & ~mask), where mask
\* is the documented mask except that sstatus does not write XS, and v' is
\* v except that a MISA value without F has D removed.
C2_WriteReadBack ==
    \A csr \in Csrs \cap WritableCsrs, v \in Vals :
       ReadBackIs(env, csr, v, EffectiveValue(csr, v), EffectiveMask(env, csr, v))

\* C2 as stated: the same with the documented mask and v itself.
C2_AsStated ==
    \A csr \in Csrs \cap WritableCsrs, v \in Vals :
       ReadBackIs(env, csr, v, v, DocumentedMask(env, csr, v))

\* A csrrw to MISA on a hart built with F and D has left both cleared.
C2_Witness ==
    /\ res.op = "csrrw" /\ res.csr = CSR_MISA /\ res.kind = "return"
    /\ {3, 5} \subseteq env.max_isa
    /\ env.misa \cap {3, 5} = {}


\* csr is read-only-coded and a read of it at the current privilege
\* returns a value.
ReadOnlyReadable(e, csr) ==
    /\ Bits11_10(csr) = 3
    /\ e.priv >= Bits9_8(csr)
    /\ csr_read_helper(e, csr).kind = "return"

\* C3 (as amended): csrrs and csrrc called with rs1_pass = 0, whatever the
\* value of src, perform a read-only access: on a read-only-coded CSR that
\* is readable at the current privilege they return the current value and
\* change nothing, while csrrw to it is rejected with illegal-instruction;
\* with rs1_pass # 0 they are rejected like csrrw, even when src is zero.
C3_ReadOnlyAccess ==
    \A csr \in Csrs, src \in Vals :
       ReadOnlyReadable(env, csr) =>
          LET cur == csr_read_helper(env, csr).value IN
          /\ helper_csrrs(env, src, csr, 0) = Return(env, cur)
          /\ helper_csrrc(env, src, csr, 0) = Return(env, cur)
          /\ TrapNoChange(helper_csrrw(env, src, csr), env, RISCV_EXCP_ILLEGAL_INST)
          /\ TrapNoChange(helper_csrrs(env, src, csr, 1), env, RISCV_EXCP_ILLEGAL_INST)
          /\ TrapNoChange(helper_csrrc(env, src, csr, 1), env, RISCV_EXCP_ILLEGAL_INST)

\* C3 as stated: a source operand whose value is zero is enough.
C3_AsStated ==
    \A csr \in Csrs, rs1_pass \in {0, 1} :
       ReadOnlyReadable(env, csr) =>
          LET cur == csr_read_helper(env, csr).value IN
          /\ helper_csrrs(env, Zero, csr, rs1_pass) = Return(env, cur)
          /\ helper_csrrc(env, Zero, csr, rs1_pass) = Return(env, cur)
          /\ TrapNoChange(helper_csrrw(env, Zero, csr), env, RISCV_EXCP_ILLEGAL_INST)

\* A user-mode csrrc read the enabled cycle counter.
C3_Witness ==
    /\ res.op = "csrrc" /\ res.csr = CSR_CYCLE /\ res.kind = "return"
    /\ env.priv = PRV_U
    /\ 0 \in env.mucounteren


\* sret may run and sepc is aligned.
SretApplies(e) == e.priv >= PRV_S /\ e.sepc \cap {0, 1} = {}

\* The supervisor-previous-privilege field as a privilege number.
Spp(e) == IF 8 \in e.mstatus THEN PRV_S ELSE PRV_U

\* C4 (as amended): sret at privilege >= Supervisor with an aligned sepc
\* returns sepc, sets the privilege to the prior SPP, clears SPIE and sets
\* SPP to User; when SPP was Supervisor SIE becomes the prior SPIE; when
\* SPP was User no interrupt-enable bit changes (UIE is not a writable bit
\* of mstatus and stays clear).  Nothing else changes.
C4_Sret ==
    SretApplies(env) =>
       LET r == helper_sret(env)
           m == env.mstatus
           expected == IF Spp(env) = PRV_S
                       THEN (m \ {1, 5, 8}) \cup (IF 5 \in m THEN {1} ELSE {})
                       ELSE m \ {5, 8}
       IN /\ r.kind = "return"
          /\ r.value = env.sepc
          /\ r.env = [env EXCEPT !.priv = Spp(env), !.mstatus = expected]
          /\ 0 \notin r.env.mstatus

\* C4 as stated: the interrupt-enable bit of the new privilege (bit 0 for
\* User, bit 1 for Supervisor) equals the prior SPIE.
C4_AsStated ==
    SretApplies(env) =>
       LET r == helper_sret(env) IN
       /\ r.kind = "return"
       /\ r.value = env.sepc
       /\ r.env.priv = Spp(env)
       /\ (Spp(env) \in r.env.mstatus) <=> (5 \in env.mstatus)
       /\ r.env.mstatus \cap {5, 8} = {}

\* An sret has returned to Supervisor with SIE set from SPIE and a target
\* PC that is not zero.
C4_Witness ==
    /\ res.op = "sret" /\ res.kind = "return"
    /\ env.priv = PRV_S
    /\ 1 \in env.mstatus /\ env.mstatus \cap {5, 8} = {}
    /\ env.sepc # {}


\* C5: sret at privilege >= Supervisor with a misaligned sepc raises
\* instruction-address-misaligned, and sret at User privilege raises
\* illegal-instruction; in both cases privilege, mstatus and every other
\* CSR field are as before the call.
C5_SretTraps ==
    LET r == helper_sret(env) IN
    /\ (env.priv >= PRV_S /\ env.sepc \cap {0, 1} # {})
          => TrapNoChange(r, env, RISCV_EXCP_INST_ADDR_MIS)
    /\ env.priv = PRV_U
          => TrapNoChange(r, env, RISCV_EXCP_ILLEGAL_INST)

\* A supervisor-mode sret with SPP = User, SPIE set and a misaligned sepc
\* has trapped and left all of them in place.
C5_Witness ==
    /\ res.op = "sret" /\ res.kind = "trap"
    /\ env.exception_index = RISCV_EXCP_INST_ADDR_MIS
    /\ env.priv = PRV_S
    /\ env.sepc \cap {0, 1} # {}
    /\ 5 \in env.mstatus /\ 8 \notin env.mstatus


\* The machine-previous-privilege field as a number, and the privilege
\* mret enters for it (the legacy Hypervisor value is coerced to User).
Mpp(e) == (IF 11 \in e.mstatus THEN 1 ELSE 0) + (IF 12 \in e.mstatus THEN 2 ELSE 0)
MretTarget(e) == IF Mpp(e) = PRV_H THEN PRV_U ELSE Mpp(e)

\* C6 (as amended): mret below Machine raises illegal-instruction with no
\* other change; at Machine it returns mepc whatever its alignment, sets
\* the privilege to the prior MPP (Hypervisor coerced to User), clears MPIE
\* and sets MPP to User; when MPP was Supervisor or Machine the
\* interrupt-enable bit of that privilege (SIE, MIE) becomes the prior
\* MPIE; when MPP was User or Hypervisor no interrupt-enable bit changes.
C6_Mret ==
    LET r == helper_mret(env)
        m == env.mstatus
        expected == IF Mpp(env) \in {PRV_S, PRV_M}
                    THEN (m \ {Mpp(env), 7, 11, 12})
                            \cup (IF 7 \in m THEN {Mpp(env)} ELSE {})
                    ELSE m \ {7, 11, 12}
    IN /\ env.priv < PRV_M => TrapNoChange(r, env, RISCV_EXCP_ILLEGAL_INST)
       /\ env.priv = PRV_M =>
             /\ r.kind = "return"
             /\ r.value = env.mepc
             /\ r.env = [env EXCEPT !.priv = MretTarget(env), !.mstatus = expected]

\* C6 as stated: the interrupt-enable bit of the new privilege (bit 0, 1
\* or 3) equals the prior MPIE.
C6_AsStated ==
    LET r == helper_mret(env) IN
    /\ env.priv < PRV_M => TrapNoChange(r, env, RISCV_EXCP_ILLEGAL_INST)
    /\ env.priv = PRV_M =>
          /\ r.kind = "return"
          /\ r.value = env.mepc
          /\ r.env.priv = MretTarget(env)
          /\ (MretTarget(env) \in r.env.mstatus) <=> (7 \in env.mstatus)
          /\ r.env.mstatus \cap {7, 11, 12} = {}

\* An mret has returned to Supervisor with SIE set from MPIE and a
\* misaligned mepc as its target.
C6_Witness ==
    /\ res.op = "mret" /\ res.kind = "return"
    /\ env.priv = PRV_S
    /\ 1 \in env.mstatus /\ env.mstatus \cap {7, 11, 12} = {}
    /\ env.mepc \cap {0, 1} # {}


\* C7: in every reachable state, a User-mode read of CSR_CYCLE with bit 0
\* of mucounteren set returns what a Machine-mode read of CSR_MCYCLE
\* returns at that instant.
C7_CycleShadowsMcycle ==
    (env.priv = PRV_U /\ 0 \in env.mucounteren) =>
       LET u == helper_csrrs(env, Zero, CSR_CYCLE, 0)
           m == helper_csrrs([env EXCEPT !.priv = PRV_M], Zero, CSR_MCYCLE, 0)
       IN u.kind = "return" /\ m.kind = "return" /\ u.value = m.value


\* The counter-enable bitmap of the current privilege.
EnableBitmap(e) ==
    CASE e.priv = PRV_U -> e.mucounteren
      [] e.priv = PRV_S -> e.mscounteren
      [] OTHER -> Word

\* C8: a read of CSR_CYCLE or CSR_INSTRET succeeds exactly when bit
\* (csr & 31) of the current privilege's counter-enable bitmap is set
\* (mucounteren in User, mscounteren in Supervisor, all-ones in Machine);
\* with the bit clear it raises illegal-instruction, and in Machine mode it
\* never traps.
C8_CounterEnable ==
    \A csr \in {CSR_CYCLE, CSR_INSTRET} :
       LET r == helper_csrrs(env, Zero, csr, 0)
           c == helper_csrrc(env, Zero, csr, 0)
       IN /\ (csr % 32) \in EnableBitmap(env)
             => r.kind = "return" /\ r.env = env /\ c = r
          /\ (csr % 32) \notin EnableBitmap(env)
             => TrapNoChange(r, env, RISCV_EXCP_ILLEGAL_INST) /\ c = r
          /\ env.priv = PRV_M => r.kind = "return"

\* A supervisor-mode read of instret trapped: mscounteren lacks bit 2,
\* though mucounteren has it.
C8_Witness ==
    /\ res.op = "csrrs" /\ res.csr = CSR_INSTRET /\ res.kind = "trap"
    /\ env.exception_index = RISCV_EXCP_ILLEGAL_INST
    /\ env.priv = PRV_S
    /\ 2 \notin env.mscounteren /\ 0 \in env.mscounteren
    /\ 2 \in env.mucounteren


\* What a counter's current value depends on.
CounterFields(e) ==
    <<e.instructions_count_total_value,
      e.mcycle_snapshot, e.mcycle_snapshot_offset,
      e.minstret_snapshot, e.minstret_snapshot_offset>>

\* The step just taken wrote the low or the high half of a counter.
Wrote(r, lo, hi) ==
    r.op \in {"csrrw", "csrrs", "csrrc"} /\ r.csr \in {lo, hi} /\ r.kind = "return"

\* From cur to next the counter moved by exactly the raw advance, modulo
\* 2^64: it did not decrease unless it wrapped.
MovedWithRaw(cur, next, raw, nextRaw) ==
    /\ Leq64(raw, nextRaw)
    /\ next = Add64(cur, Sub64(nextRaw, raw))
    /\ Leq64(cur, next) \/ ~Leq64(Sub64(nextRaw, raw), next)

\* C9 (as amended): for each of mcycle and minstret, every step that is
\* not a write to that counter's low or high half (an advance of the raw
\* count, or any other operation, writes to the other counter included)
\* moves current(counter) by exactly the raw advance modulo 2^64, so it is
\* non-decreasing except where it wraps; only a write to one of its own
\* halves, made with the raw count standing still, sets it otherwise.
C9_Continuity ==
    [][ CounterFields(env') # CounterFields(env) =>
          /\ \/ Wrote(res', CSR_MCYCLE, CSR_MCYCLEH)
                   /\ cpu_riscv_read_instret(env') = cpu_riscv_read_instret(env)
             \/ MovedWithRaw(get_mcycles_current(env), get_mcycles_current(env'),
                             cpu_riscv_read_instret(env), cpu_riscv_read_instret(env'))
          /\ \/ Wrote(res', CSR_MINSTRET, CSR_MINSTRETH)
                   /\ cpu_riscv_read_instret(env') = cpu_riscv_read_instret(env)
             \/ MovedWithRaw(get_minstret_current(env), get_minstret_current(env'),
                             cpu_riscv_read_instret(env), cpu_riscv_read_instret(env'))
      ]_vars

\* C9 as stated: neither counter ever decreases.
C9_AsStated ==
    [][ /\ Leq64(get_mcycles_current(env), get_mcycles_current(env'))
        /\ Leq64(get_minstret_current(env), get_minstret_current(env')) ]_vars

\* The raw count advanced after both halves of mcycle were written with
\* all-ones: the counter wrapped to zero.
C9_Witness ==
    /\ res.op = "advance"
    /\ env.mcycle_snapshot_offset = Word64
    /\ get_mcycles_current(env) = {}


\* The counter a CSR number belongs to: its current value, its low and
\* high CSR numbers, its (snapshot, offset) pair and the other counter's.
IsCycleCsr(csr) == csr \in {CSR_MCYCLE, CSR_MCYCLEH}
Current(e, csr) ==
    IF IsCycleCsr(csr) THEN get_mcycles_current(e) ELSE get_minstret_current(e)
LowCsr(csr) == IF IsCycleCsr(csr) THEN CSR_MCYCLE ELSE CSR_MINSTRET
HighCsr(csr) == IF IsCycleCsr(csr) THEN CSR_MCYCLEH ELSE CSR_MINSTRETH
OwnPair(e, csr) ==
    IF IsCycleCsr(csr) THEN <<e.mcycle_snapshot, e.mcycle_snapshot_offset>>
    ELSE <<e.minstret_snapshot, e.minstret_snapshot_offset>>
OtherPair(e, csr) ==
    IF IsCycleCsr(csr) THEN <<e.minstret_snapshot, e.minstret_snapshot_offset>>
    ELSE <<e.mcycle_snapshot, e.mcycle_snapshot_offset>>

\* The 64-bit value a write of v to csr must leave in the counter.
AfterWrite(e, csr, v) ==
    IF csr = LowCsr(csr) THEN (Current(e, csr) \cap HighHalf) \cup v
    ELSE (Current(e, csr) \cap LowHalf) \cup ShiftLeft(v, 32)

\* C10: a machine-mode write of v to the low half of mcycle or minstret
\* makes the counter read v in its low bits and the upper bits of
\* current(counter) just before the write; a write to the high half
\* replaces the upper bits and keeps the lower ones; after either write
\* snapshot is the raw lifetime count, the counter advances by exactly what
\* the raw count advances (modulo 2^64), and the other counter's
\* (snapshot, offset) pair is unchanged.
C10_CounterWrite ==
    \A csr \in Csrs \cap {CSR_MCYCLE, CSR_MCYCLEH, CSR_MINSTRET, CSR_MINSTRETH},
       v \in Vals :
       env.priv = PRV_M =>
          LET w == helper_csrrw(env, v, csr)
              expected == AfterWrite(env, csr, v)
          IN /\ w.kind = "return"
             /\ Current(w.env, csr) = expected
             /\ csr_read_helper(w.env, LowCsr(csr)).value = expected \cap LowHalf
             /\ csr_read_helper(w.env, HighCsr(csr)).value
                   = ShiftRight(expected \cap HighHalf, 32)
             /\ OwnPair(w.env, csr)[1] = cpu_riscv_read_instret(env)
             /\ OtherPair(w.env, csr) = OtherPair(env, csr)
             /\ \A d \in 1 .. MaxAdvance :
                   Current([w.env EXCEPT !.instructions_count_total_value =
                                            Add64(@, FromNat(d))], csr)
                      = Add64(expected, FromNat(d))

\* After the raw count advanced to 1, csrrw wrote all-ones to mcycleh: the
\* offset keeps the low bits of the count and the snapshot is the raw count.
C10_Witness ==
    /\ res.op = "csrrw" /\ res.csr = CSR_MCYCLEH /\ res.kind = "return"
    /\ env.instructions_count_total_value = {0}
    /\ env.mcycle_snapshot = {0}
    /\ env.mcycle_snapshot_offset = {0} \cup HighHalf


\* C11: a write of any value to SIP leaves the bits of MIP outside mideleg
\* as they were, a write to SIE leaves the bits of MIE outside mideleg as
\* they were, and reads of SIP / SIE return MIP / MIE masked by mideleg.
C11_DelegatedOnly ==
    \A csr \in Csrs \cap {CSR_SIP, CSR_SIE}, v \in Vals :
       LET rd == csr_read_helper(env, csr)
           w == csr_write_helper(env, v, csr)
           sw == helper_csrrw(env, v, csr)
           st == helper_csrrs(env, v, csr, 1)
           cl == helper_csrrc(env, v, csr, 1)
       IN /\ rd = Return(env, (IF csr = CSR_SIP THEN env.mip ELSE env.mie)
                                \cap env.mideleg)
          /\ w.kind = "return"
          /\ \A r \in {w, sw, st, cl} :
                /\ r.env.mip \ env.mideleg = env.mip \ env.mideleg
                /\ r.env.mie \ env.mideleg = env.mie \ env.mideleg

\* A csrrw of zero to SIP cleared the delegated SSIP and left the pending
\* STIP, which is not delegated, in MIP.
C11_Witness ==
    /\ res.op = "csrrw" /\ res.csr = CSR_SIP /\ res.kind = "return"
    /\ env.mideleg = {1, 9}
    /\ env.mip = {5}
    /\ 3 \in env.mie


StatusFields == {1, 3, 5, 7, 8, 11, 12, 13, 14, 17, 18, 19}
SchemeField == 24 .. 28

\* v with its scheme field replaced by the bits of code.
WithScheme(v, code) == (v \ SchemeField) \cup {i + 24 : i \in code}

\* C13: an MSTATUS write whose scheme field is not bare, Sv32, Sv39 or
\* Sv48 leaves the scheme field of mstatus unchanged while every other
\* field of the writable mask takes the written value; with a supported
\* code the scheme field takes the written value too.
C13_SchemeField ==
    CSR_MSTATUS \in Csrs =>
    \A u \in Vals, code \in SUBSET (0 .. 4) :
       LET v == WithScheme(u, code)
           w == csr_write_helper(env, v, CSR_MSTATUS)
           sw == helper_csrrw(env, v, CSR_MSTATUS)
       IN /\ w.kind = "return"
          /\ w.env.mstatus \cap StatusFields = v \cap StatusFields
          /\ w.env.mstatus \cap SchemeField =
                IF code \in { {}, {3}, {0, 3}, {1, 3} }
                THEN v \cap SchemeField ELSE env.mstatus \cap SchemeField
          /\ env.priv = PRV_M => sw.kind = "return" /\ sw.env = w.env

\* A csrrw of all-ones (scheme code 31) to mstatus set every other
\* writable field and left the scheme field at Sv32.
C13_Witness ==
    /\ res.op = "csrrw" /\ res.csr = CSR_MSTATUS /\ res.kind = "return"
    /\ env.mstatus \cap SchemeField = {27}
    /\ StatusFields \subseteq env.mstatus


\* The summary dirty bit SD is the top bit of the status register: bit 31
\* of the 32-bit target_ulong (bit 63 is where MSTATUS64_SD places it).
SdSet(m) == m \cap {TARGET_LONG_BITS - 1, 63} # {}
FsOrXsDirty(m) == {13, 14} \subseteq m \/ {15, 16} \subseteq m

\* C14: in every state reached from reset by CSR writes, sret and mret,
\* the SD bit of mstatus equals (FS = dirty) or (XS = dirty), and the SD
\* bit an SSTATUS read returns equals the SD bit of mstatus.
C14_SummaryDirty ==
    /\ SdSet(env.mstatus) <=> FsOrXsDirty(env.mstatus)
    /\ LET rd == csr_read_helper(env, CSR_SSTATUS)
       IN rd.kind = "return" /\ (SdSet(rd.value) <=> SdSet(env.mstatus))


\* C15: the current privilege is always User, Supervisor or Machine;
\* set_privilege turns a request for Hypervisor into User, and a request
\* above Machine ends in the fatal abort with the privilege unchanged;
\* mret with Hypervisor stored in MPP lands in User.
C15_PrivilegeLevels ==
    /\ validate_priv(env.priv)
    /\ LET h == set_privilege(env, PRV_H)
           over == set_privilege(env, PRV_M + 1)
       IN /\ h.kind = "return" /\ h.env.priv = PRV_U
          /\ over.kind = "abort" /\ over.env.priv = env.priv
    /\ \A r \in {helper_sret(env), helper_mret(env)} : validate_priv(r.env.priv)
    /\ \A csr \in Csrs, v \in Vals :
          validate_priv(helper_csrrw(env, v, csr).env.priv)

\* A Supervisor hart at the abort of a request above Machine.
C15_Witness ==
    /\ res.op = "set_privilege" /\ res.kind = "abort"
    /\ env.priv = PRV_S /\ Mpp(env) = PRV_H

\* r is the fatal abort reached from e with every field unchanged.
FatalNoChange(r, e) == r.kind = "abort" /\ r.env = e

\* C16: a read or write of TDATA1, TDATA2 or DCSR that reaches the CSR
\* dispatch ends in the fatal abort (not a trap, not a return) and changes
\* no field of the state; so does every csrrw / csrrs / csrrc on them at
\* Machine privilege, where validation passes.
C16_DebugCsrsAbort ==
    \A csr \in Csrs \cap {CSR_TDATA1, CSR_TDATA2, CSR_DCSR}, v \in Vals :
       /\ FatalNoChange(csr_read_helper(env, csr), env)
       /\ FatalNoChange(csr_write_helper(env, v, csr), env)
       /\ env.priv = PRV_M =>
             /\ validate_csr(env, csr, TRUE).kind = "return"
             /\ FatalNoChange(helper_csrrw(env, v, csr), env)
             /\ \A rs1_pass \in {0, 1} :
                   /\ FatalNoChange(helper_csrrs(env, v, csr, rs1_pass), env)
                   /\ FatalNoChange(helper_csrrc(env, v, csr, rs1_pass), env)

C16_Witness ==
    /\ res.op = "csrrs" /\ res.csr = CSR_DCSR /\ res.kind = "abort"
    /\ env.priv = PRV_M /\ env.exception_index = EXCP_NONE

\* The performance-monitor ranges: user-level counters, and the
\* machine-level counters and event selectors.
HpmUser == CSR_HPMCOUNTER3 .. CSR_HPMCOUNTER31
HpmMachine == (CSR_MHPMCOUNTER3 .. CSR_MHPMCOUNTER31)
              \cup (CSR_MHPMEVENT3 .. CSR_MHPMEVENT31)

\* A read (csrrs with rs1 = x0) that validate_csr lets through.
ReadPasses(e, csr) == validate_csr(e, csr, FALSE).kind = "return"

\* C17 (as amended): a read of MHPMCOUNTER3..31 or MHPMEVENT3..31 returns
\* zero whatever the counter enables hold; a read of HPMCOUNTER3..31
\* returns zero when bit (csr & 31) of the enable bitmap of the current
\* privilege is set (always in Machine mode) and raises
\* illegal-instruction, changing nothing else, when that bit is clear.
C17_HpmReads ==
    \A csr \in Csrs \cap (HpmUser \cup HpmMachine) :
       LET rd == csr_read_helper(env, csr)
           r == helper_csrrs(env, Zero, csr, 0)
       IN /\ ReadPasses(env, csr) => r = rd
          /\ csr \in HpmMachine => rd = Return(env, {})
          /\ csr \in HpmUser =>
                /\ ReadPasses(env, csr)
                /\ IF (csr % 32) \in EnableBitmap(env)
                   THEN rd = Return(env, {})
                   ELSE TrapNoChange(rd, env, RISCV_EXCP_ILLEGAL_INST)

\* C17 as stated: every validated read in the three ranges returns zero
\* and does not trap, whatever the enables and the privilege.
C17_AsStated ==
    \A csr \in Csrs \cap (HpmUser \cup HpmMachine) :
       ReadPasses(env, csr) => helper_csrrs(env, Zero, csr, 0) = Return(env, {})

\* A User-mode read of hpmcounter3 trapped: mucounteren lacks bit 3,
\* though mscounteren has it.
C17_Witness ==
    /\ res.op = "csrrs" /\ res.csr = CSR_HPMCOUNTER3 /\ res.kind = "trap"
    /\ env.exception_index = RISCV_EXCP_ILLEGAL_INST
    /\ env.priv = PRV_U
    /\ 3 \notin env.mucounteren /\ 3 \in env.mscounteren

\* r, reached from e, is either no trap or a trap that carries no value
\* and differs from e in the transient cause / address fields only.
TrapFrame(r, e) ==
    r.kind = "trap" =>
       /\ r.value = {}
       /\ [r.env EXCEPT !.exception_index = e.exception_index,
                        !.badaddr = e.badaddr] = e

\* C18: whenever csrrw, csrrs, csrrc, sret, mret or tlb_fill ends in a
\* guest-visible trap, the state differs from the state before the
\* operation in exception_index and badaddr only (privilege, every CSR
\* field and both counter pairs are unchanged) and no value is returned.
C18_TrapFrame ==
    /\ \A csr \in Csrs, v \in Vals :
          /\ TrapFrame(helper_csrrw(env, v, csr), env)
          /\ \A rs1_pass \in {0, 1} :
                /\ TrapFrame(helper_csrrs(env, v, csr, rs1_pass), env)
                /\ TrapFrame(helper_csrrc(env, v, csr, rs1_pass), env)
    /\ TrapFrame(helper_sret(env), env)
    /\ TrapFrame(helper_mret(env), env)
    /\ \A addr \in Vals, is_write \in 0 .. 2 :
          \A w \in cpu_riscv_handle_mmu_fault(env, addr, is_write) :
             TrapFrame(tlb_fill(w), env)

\* A store missed the TLB in Supervisor mode with a page-table base
\* programmed, and the walker's store fault was raised.
C18_Witness ==
    /\ res.op = "tlb_fill" /\ res.kind = "trap"
    /\ env.exception_index = MmuFaultCause(1) /\ env.badaddr # {}
    /\ env.priv = PRV_S /\ env.sptbr # {} /\ env.medeleg # {}

\* The operations guest code can invoke.
GuestOps == {"csrrw", "csrrs", "csrrc", "sret", "mret"}

\* C19: no step made by csrrw, csrrs, csrrc, sret or mret raises the
\* privilege: the privilege after the operation is at most the privilege
\* before it, so without a trap entry or a direct set_privilege a hart in
\* User or Supervisor mode never reaches Machine mode.
C19_NoEscalation ==
    [][ res'.op \in GuestOps => env'.priv <= env.priv ]_vars

\* mret has lowered the hart from Machine to Supervisor and reset MPP to
\* User.
C19_Witness ==
    /\ res.op = "mret" /\ res.kind = "return"
    /\ env.priv = PRV_S /\ Mpp(env) = PRV_U

\* The machine-level state a lower privilege must not touch.
MachineStatusBits == MSTATUS_MIE \cup MSTATUS_MPIE \cup MSTATUS_MPP
                     \cup MSTATUS_MPRV \cup MSTATUS_MXR \cup MSTATUS_VM
MachineFrame(e) ==
    <<e.mideleg, e.medeleg, e.misa, e.mtvec, e.mepc, e.mscratch, e.mcause,
      e.mbadaddr, e.mucounteren, e.mscounteren,
      e.mcycle_snapshot, e.mcycle_snapshot_offset,
      e.minstret_snapshot, e.minstret_snapshot_offset,
      e.mstatus \cap MachineStatusBits,
      e.mie \ e.mideleg, e.mip \ e.mideleg>>

\* FS and the summary-dirty bit of mstatus.
FsSdBits == MSTATUS_FS \cup MSTATUS64_SD \cup {TARGET_LONG_BITS - 1}

\* r differs from e at most in fflags, frm, the FS / SD bits of mstatus and
\* the transient cause / address fields a trap records.
UserFrame(r, e) ==
    [r.env EXCEPT !.fflags = e.fflags, !.frm = e.frm,
                  !.mstatus = (@ \ FsSdBits) \cup (e.mstatus \cap FsSdBits),
                  !.exception_index = e.exception_index,
                  !.badaddr = e.badaddr] = e

\* The registers of the running workload, and the supervisor and
\* floating-point registers through which a lower privilege writes.
IsolationCsrs == Csrs \cup {CSR_SSTATUS, CSR_SIP, CSR_SIE, CSR_FCSR, CSR_MSTATUS}

\* The outcomes of every csrrw / csrrs / csrrc / sret / mret from e.
GuestOutcomes(e) ==
    {helper_sret(e), helper_mret(e)}
    \cup { helper_csrrw(e, v, csr) : csr \in IsolationCsrs, v \in Vals }
    \cup { helper_csrrs(e, v, csr, rs1_pass) :
             csr \in IsolationCsrs, v \in Vals, rs1_pass \in {0, 1} }
    \cup { helper_csrrc(e, v, csr, rs1_pass) :
             csr \in IsolationCsrs, v \in Vals, rs1_pass \in {0, 1} }

\* C20: below Machine privilege every csrrw / csrrs / csrrc / sret / mret,
\* trapping or not, leaves unchanged mideleg, medeleg, misa, mtvec, mepc,
\* mscratch, mcause, mbadaddr, mucounteren, mscounteren, both counter
\* (snapshot, offset) pairs, the mstatus fields MIE, MPIE, MPP, MPRV, MXR
\* and VM, and the bits of mie and mip outside mideleg; at User privilege
\* it changes no CSR field and not the privilege, except fflags, frm and
\* the FS / SD bits of mstatus (a trap records its cause besides).
C20_MachineIsolation ==
    env.priv < PRV_M =>
       \A r \in GuestOutcomes(env) :
          /\ MachineFrame(r.env) = MachineFrame(env)
          /\ env.priv = PRV_U => UserFrame(r, env)

\* A Supervisor-mode write of zero to SIE cleared the delegated enables
\* and left the undelegated ones set.
C20_Witness ==
    /\ res.op = "csrrw" /\ res.csr = CSR_SIE /\ res.kind = "return"
    /\ env.priv = PRV_S /\ env.mideleg = {1, 9}
    /\ 3 \in env.mie /\ env.mie \cap env.mideleg = {}

====
